---- MODULE Spec2Model ----
(***************************************************************************)
(* A model of haddock's Compose-file loader (src/src/compose.rs):          *)
(*   - evaluate    : the recursive evaluator of interpolation tokens,      *)
(*   - interpolate : the walker applying it to every string of a tree,     *)
(*   - parse       : project-name resolution, interpolation, validation    *)
(*                   and the merge of the files into one Compose value,    *)
(* called by the convert command (src/src/commands/convert.rs).            *)
(* Rust Strings are TLA+ strings, Option<T> is a sequence of length 0 or   *)
(* 1, Result<T> is a record [ok, v] (v the value or the error message).    *)
(***************************************************************************)
EXTENDS Integers, Sequences, FiniteSets, TLC

VARIABLES
    env,            \* the process environment: variable name -> Option<String>
    config,         \* Config: [files, project_name], the argument of parse
    args,           \* convert's Args: [no_interpolate], the flags of the command
    pc,             \* position inside parse / the evaluator harness
    contents,       \* the serde_yaml::Value read from each path (input of parse)
    files,          \* Vec<(path, Compose, unused)> built by the loading chain
    next_file,      \* index of the next source the loading chain takes
    combined_file,  \* the accumulator of the merge loop
    merged,         \* number of files the merge loop has folded in
    result,         \* Option<Result<Compose>>: what parse returned
    warnings,       \* what was printed with eprintln!
    tokens,         \* evaluator harness: the argument of evaluate
    evaluated       \* evaluator harness: Option<Result<String>> of evaluate

vars == <<env, config, args, pc, contents, files, next_file, combined_file, merged,
          result, warnings, tokens, evaluated>>

(***************************************************************************)
(* Bounds of the model.                                                    *)
(***************************************************************************)
MaxFiles == 2       \* longest config.files
MaxNest == 2        \* deepest nesting of ${...} inside operator text

(***************************************************************************)
(* Option and Result.                                                      *)
(***************************************************************************)
None == <<>>
Some(x) == <<x>>
is_some(o) == Len(o) = 1
is_none(o) == Len(o) = 0
unwrap(o) == o[1]
Option(S) == {None} \cup {Some(x) : x \in S}

Ok(x) == [ok |-> TRUE, v |-> x]
Err(m) == [ok |-> FALSE, v |-> m]

(***************************************************************************)
(* parser::Token, parser::Var, parser::State.                              *)
(***************************************************************************)
Str(s) == [t |-> "Str", s |-> s]
Var(name, var) == [t |-> "Var", name |-> name, var |-> var]
Default(state, toks) == [kind |-> "Default", state |-> state, tokens |-> toks]
ErrOp(state, toks) == [kind |-> "Err", state |-> state, tokens |-> toks]
Replace(state, toks) == [kind |-> "Replace", state |-> state, tokens |-> toks]
States == {"Set", "SetAndNonEmpty"}

(***************************************************************************)
(* env::var(name): Ok(value) when the variable is defined, else            *)
(* Err(VarError::NotPresent).  The environment is passed explicitly.       *)
(***************************************************************************)
EnvNames == {"VAR", "DEF", "COMPOSE_PROJECT_NAME"}

env_var(e, name) ==
    IF name \in DOMAIN e /\ is_some(e[name]) THEN Ok(unwrap(e[name]))
    ELSE Err("NotPresent")

\* the match on `state` shared by the three operators (compose.rs 21-30)
lookupBlankAsPresent(e, state, name) == env_var(e, name)

lookup(e, state, name) ==
    IF state = "Set" THEN env_var(e, name)
    ELSE LET r == env_var(e, name) IN
         IF r.ok /\ r.v = "" THEN Err("NotPresent") ELSE r

(***************************************************************************)
(* evaluate(tokens): the result carries, besides Result<String>, the names *)
(* for which the "not set" warning was printed.                            *)
(***************************************************************************)
EvOk(s, w) == [ok |-> TRUE, v |-> s, warn |-> w]
EvErr(m, w) == [ok |-> FALSE, v |-> m, warn |-> w]

missing(name) == "Required variable \"" \o name \o "\" is missing a value"

RECURSIVE evaluate(_, _)
RECURSIVE evaluateToken(_, _)

evaluateDefault(e, name, var) ==
    LET r == lookup(e, var.state, name) IN
    IF r.ok THEN EvOk(r.v, <<>>) ELSE evaluate(e, var.tokens)

evaluateErrAlwaysColon(e, name, var) ==
    LET r == lookup(e, var.state, name) IN
    IF r.ok THEN EvOk(r.v, <<>>)
    ELSE LET m == evaluate(e, var.tokens) IN
         IF ~m.ok THEN m
         ELSE EvErr(missing(name) \o ": " \o m.v, m.warn)

evaluateErr(e, name, var) ==
    LET r == lookup(e, var.state, name) IN
    IF r.ok THEN EvOk(r.v, <<>>)
    ELSE LET m == evaluate(e, var.tokens) IN
         IF ~m.ok THEN m
         ELSE IF m.v = "" THEN EvErr(missing(name), m.warn)
         ELSE EvErr(missing(name) \o ": " \o m.v, m.warn)

evaluateReplaceOwnValue(e, name, var) ==
    LET r == lookup(e, var.state, name) IN
    IF r.ok THEN EvOk(r.v, <<>>) ELSE EvOk("", <<>>)

evaluateReplace(e, name, var) ==
    LET r == lookup(e, var.state, name) IN
    IF r.ok THEN evaluate(e, var.tokens) ELSE EvOk("", <<>>)

evaluatePlain(e, name) ==
    LET r == env_var(e, name) IN
    IF r.ok THEN EvOk(r.v, <<>>) ELSE EvOk("", <<name>>)

evaluateToken(e, token) ==
    IF token.t = "Str" THEN EvOk(token.s, <<>>)
    ELSE IF is_none(token.var) THEN evaluatePlain(e, token.name)
    ELSE LET var == unwrap(token.var) IN
         CASE var.kind = "Default" -> evaluateDefault(e, token.name, var)
           [] var.kind = "Err" -> evaluateErr(e, token.name, var)
           [] var.kind = "Replace" -> evaluateReplace(e, token.name, var)

\* map over the tokens, collect() stopping at the first Err, then join("")
evaluate(e, toks) ==
    IF toks = <<>> THEN EvOk("", <<>>)
    ELSE LET r == evaluateToken(e, Head(toks)) IN
         IF ~r.ok THEN r
         ELSE LET rest == evaluate(e, Tail(toks)) IN
              IF rest.ok THEN EvOk(r.v \o rest.v, r.warn \o rest.warn)
              ELSE EvErr(rest.v, r.warn \o rest.warn)

(***************************************************************************)
(* parser::parse(input): the tokenizer.  `$NAME`, `${NAME}` and            *)
(* `${NAME[:](-|?|+)text}` are references, the text of an operator is      *)
(* itself tokenized, every other character is literal text.                *)
(***************************************************************************)
Ch(s, i) == IF 1 <= i /\ i <= Len(s) THEN SubSeq(s, i, i) ELSE ""

IdentStart ==
    {"A", "B", "C", "D", "E", "F", "G", "H", "I", "J", "K", "L", "M", "N", "O",
     "P", "Q", "R", "S", "T", "U", "V", "W", "X", "Y", "Z", "_",
     "a", "b", "c", "d", "e", "f", "g", "h", "i", "j", "k", "l", "m", "n", "o",
     "p", "q", "r", "s", "t", "u", "v", "w", "x", "y", "z"}
IdentChar == IdentStart \cup {"0", "1", "2", "3", "4", "5", "6", "7", "8", "9"}

\* the index after the identifier that starts at i (i itself when there is none)
RECURSIVE IdentRest(_, _)
IdentRest(s, i) == IF Ch(s, i) \in IdentChar THEN IdentRest(s, i + 1) ELSE i
IdentEnd(s, i) == IF Ch(s, i) \in IdentStart THEN IdentRest(s, i + 1) ELSE i

ParseError(s) == [ok |-> FALSE, tokens |-> <<>>, pos |-> 0, err |-> s]
Parsed(toks, pos) == [ok |-> TRUE, tokens |-> toks, pos |-> pos, err |-> ""]

\* literal text joins the literal run that follows it
PushStr(c, toks) ==
    IF toks # <<>> /\ Head(toks).t = "Str"
    THEN <<Str(c \o Head(toks).s)>> \o Tail(toks)
    ELSE <<Str(c)>> \o toks

Operator(sigil, state, toks) ==
    CASE sigil = "-" -> Default(state, toks)
      [] sigil = "?" -> ErrOp(state, toks)
      [] sigil = "+" -> Replace(state, toks)

\* tokens of s from index i on; inside braces the scan stops at the closing "}"
RECURSIVE parseFrom(_, _, _)
parseFrom(s, i, nested) ==
    IF i > Len(s)
    THEN IF nested THEN ParseError(s) ELSE Parsed(<<>>, i)
    ELSE IF nested /\ Ch(s, i) = "}" THEN Parsed(<<>>, i)
    ELSE IF Ch(s, i) = "$" /\ Ch(s, i + 1) = "{"
    THEN LET j == IdentEnd(s, i + 2)
             name == SubSeq(s, i + 2, j - 1)
             state == IF Ch(s, j) = ":" THEN "SetAndNonEmpty" ELSE "Set"
             k == IF Ch(s, j) = ":" THEN j + 1 ELSE j
         IN  IF j = i + 2 THEN ParseError(SubSeq(s, i, Len(s)))
             ELSE IF Ch(s, j) = "}"
             THEN LET rest == parseFrom(s, j + 1, nested) IN
                  IF rest.ok THEN Parsed(<<Var(name, None)>> \o rest.tokens, rest.pos)
                  ELSE rest
             ELSE IF Ch(s, k) \notin {"-", "?", "+"} THEN ParseError(SubSeq(s, i, Len(s)))
             ELSE LET inner == parseFrom(s, k + 1, TRUE) IN
                  IF ~inner.ok THEN ParseError(SubSeq(s, i, Len(s)))
                  ELSE LET rest == parseFrom(s, inner.pos + 1, nested)
                           var == Var(name, Some(Operator(Ch(s, k), state, inner.tokens)))
                       IN  IF rest.ok THEN Parsed(<<var>> \o rest.tokens, rest.pos)
                           ELSE rest
    ELSE IF Ch(s, i) = "$" /\ Ch(s, i + 1) \in IdentStart
    THEN LET j == IdentEnd(s, i + 1)
             rest == parseFrom(s, j, nested)
         IN  IF rest.ok
             THEN Parsed(<<Var(SubSeq(s, i + 1, j - 1), None)>> \o rest.tokens, rest.pos)
             ELSE rest
    ELSE LET rest == parseFrom(s, i + 1, nested) IN
         IF rest.ok THEN Parsed(PushStr(Ch(s, i), rest.tokens), rest.pos) ELSE rest

parser_parse(s) ==
    LET r == parseFrom(s, 1, FALSE) IN
    IF r.ok THEN Ok(r.tokens) ELSE Err("invalid interpolation format for " \o r.err)

(***************************************************************************)
(* serde_yaml::Value.  A mapping is the sequence of its entries, in        *)
(* insertion order, keys unique.                                           *)
(***************************************************************************)
VNull == [k |-> "Null"]
Malformed == [k |-> "Malformed"]    \* text serde_yaml::from_str rejects
VBool(b) == [k |-> "Bool", b |-> b]
VNumber(text) == [k |-> "Number", n |-> text]
VString(s) == [k |-> "String", s |-> s]
VSequence(items) == [k |-> "Sequence", items |-> items]
VMapping(entries) == [k |-> "Mapping", entries |-> entries]
Entry(key, value) == [key |-> key, value |-> value]

is_string(v) == v.k = "String"
is_mapping(v) == v.k = "Mapping"

\* position of key in the entries, 0 when absent
index_of(entries, key) ==
    IF \E i \in 1..Len(entries) : entries[i].key = key
    THEN CHOOSE i \in 1..Len(entries) : entries[i].key = key
    ELSE 0

\* Mapping::get / IndexMap::get
get(entries, key) ==
    IF index_of(entries, key) = 0 THEN None
    ELSE Some(entries[index_of(entries, key)].value)

\* Mapping::insert / IndexMap::insert: replace in place, or append
insert(entries, key, value) ==
    IF index_of(entries, key) = 0 THEN Append(entries, Entry(key, value))
    ELSE [entries EXCEPT ![index_of(entries, key)] = Entry(key, value)]

keys(entries) == {entries[i].key : i \in 1..Len(entries)}

(***************************************************************************)
(* interpolate(value): the result is Result<Value> whose error is the      *)
(* anyhow chain, outermost context first, the evaluator's message last;    *)
(* `warn` are the warnings printed on the way.                             *)
(***************************************************************************)
IpOk(v, w) == [ok |-> TRUE, v |-> v, chain |-> <<>>, warn |-> w]
IpErr(chain, w) == [ok |-> FALSE, v |-> VNull, chain |-> chain, warn |-> w]

RECURSIVE interpolate(_, _)
RECURSIVE interpolateAll(_, _)
RECURSIVE interpolateEntries(_, _)

\* .map(Value::String) on the evaluator's result
string_value(r) == IF r.ok THEN IpOk(VString(r.v), r.warn) ELSE IpErr(<<r.v>>, r.warn)

\* .and_then(evaluate) on the tokenizer's result
and_then_evaluate(e, p) ==
    IF ~p.ok THEN IpErr(<<p.v>>, <<>>) ELSE string_value(evaluate(e, p.v))

interpolateString(e, s) == and_then_evaluate(e, parser_parse(s))

\* the elements of a sequence in order, stopping at the first error
interpolateAll(e, items) ==
    IF items = <<>> THEN IpOk(<<>>, <<>>)
    ELSE LET r == interpolate(e, Head(items)) IN
         IF ~r.ok THEN r
         ELSE LET rest == interpolateAll(e, Tail(items)) IN
              IF rest.ok THEN IpOk(<<r.v>> \o rest.v, r.warn \o rest.warn)
              ELSE IpErr(rest.chain, r.warn \o rest.warn)

\* the values of a mapping in order, an error gaining the key as context
interpolateEntries(e, entries) ==
    IF entries = <<>> THEN IpOk(<<>>, <<>>)
    ELSE LET r == interpolate(e, Head(entries).value) IN
         IF ~r.ok THEN IpErr(<<Head(entries).key>> \o r.chain, r.warn)
         ELSE LET rest == interpolateEntries(e, Tail(entries)) IN
              IF rest.ok
              THEN IpOk(<<Entry(Head(entries).key, r.v)>> \o rest.v, r.warn \o rest.warn)
              ELSE IpErr(rest.chain, r.warn \o rest.warn)

interpolate(e, value) ==
    CASE value.k = "String" -> interpolateString(e, value.s)
      [] value.k = "Sequence" ->
            LET r == interpolateAll(e, value.items) IN
            IF r.ok THEN IpOk(VSequence(r.v), r.warn) ELSE r
      [] value.k = "Mapping" ->
            LET r == interpolateEntries(e, value.entries) IN
            IF r.ok THEN IpOk(VMapping(r.v), r.warn) ELSE r
      [] OTHER -> IpOk(value, <<>>)

(***************************************************************************)
(* types::Compose and the entities the loader reads.  An IndexMap is the   *)
(* sequence of its entries, like a Mapping.  Deserialization keeps the     *)
(* fields parse reads and reports every other key as unused.               *)
(***************************************************************************)
Compose_new ==
    [version |-> None, name |-> None, services |-> <<>>, networks |-> None,
     volumes |-> None, configs |-> None, secrets |-> None]

ComposeFields == {"version", "name", "services", "networks", "volumes", "configs", "secrets"}
ServiceFields == {"build", "image", "network_mode", "ports"}
NetworkFields ==
    {"external", "driver", "driver_opts", "enable_ipv6", "ipam", "internal", "labels"}
VolumeFields == {"external", "driver", "driver_opts", "labels"}
ConfigFields == {"external", "file"}
SecretFields == {"external", "file", "environment"}

\* an Option<T> field: absent and null are both None
field(entries, key) ==
    LET v == get(entries, key) IN
    IF is_some(v) /\ unwrap(v).k = "Null" THEN None ELSE v

\* the text a scalar deserializes to as a String
scalar_text(v) ==
    CASE v.k = "String" -> v.s
      [] v.k = "Bool" -> IF v.b THEN "true" ELSE "false"
      [] v.k = "Number" -> v.n
      [] OTHER -> ""

is_scalar(v) == v.k \in {"String", "Bool", "Number"}

text_field(entries, key) ==
    LET v == field(entries, key) IN
    IF is_some(v) THEN Some(scalar_text(unwrap(v))) ELSE None

bool_field(entries, key) ==
    LET v == field(entries, key) IN
    IF is_some(v) THEN Some(unwrap(v).b) ELSE None

Service(entries) ==
    [build |-> field(entries, "build"),
     image |-> text_field(entries, "image"),
     network_mode |-> text_field(entries, "network_mode"),
     ports |-> field(entries, "ports")]

Resource(entries, fields) ==
    [f \in fields |->
        IF f = "external" THEN bool_field(entries, f) ELSE field(entries, f)]

\* IndexMap<String, Service>
services_of(entries) ==
    [i \in 1..Len(entries) |-> Entry(entries[i].key, Service(entries[i].value.entries))]

\* IndexMap<String, T> of a resource section
resources(entries, fields) ==
    [i \in 1..Len(entries) |->
        Entry(entries[i].key, Resource(entries[i].value.entries, fields))]

\* IndexMap<String, Option<T>>: a null entry is None
optional_resources(entries, fields) ==
    [i \in 1..Len(entries) |->
        Entry(entries[i].key,
              IF entries[i].value.k = "Null" THEN None
              ELSE Some(Resource(entries[i].value.entries, fields)))]

section(root, key, fields) ==
    IF is_some(field(root, key))
    THEN Some(resources(unwrap(field(root, key)).entries, fields))
    ELSE None

optional_section(root, key, fields) ==
    IF is_some(field(root, key))
    THEN Some(optional_resources(unwrap(field(root, key)).entries, fields))
    ELSE None

\* the value has the shape the schema asks for at this place
mapping_of_mappings(v, nullable) ==
    /\ v.k = "Mapping"
    /\ \A i \in 1..Len(v.entries) :
          \/ v.entries[i].value.k = "Mapping"
          \/ nullable /\ v.entries[i].value.k = "Null"

follows_schema(content) ==
    /\ content.k = "Mapping"
    /\ \A f \in {"version", "name"} :
          is_some(field(content.entries, f)) => is_scalar(unwrap(field(content.entries, f)))
    /\ \A f \in {"services", "configs", "secrets"} :
          is_some(field(content.entries, f)) =>
              mapping_of_mappings(unwrap(field(content.entries, f)), FALSE)
    /\ \A f \in {"networks", "volumes"} :
          is_some(field(content.entries, f)) =>
              mapping_of_mappings(unwrap(field(content.entries, f)), TRUE)

\* the keys serde_ignored reports, as dotted paths in document order
RECURSIVE unused_keys(_, _, _)
unused_keys(entries, fields, prefix) ==
    IF entries = <<>> THEN <<>>
    ELSE (IF Head(entries).key \in fields THEN <<>> ELSE <<prefix \o Head(entries).key>>)
         \o unused_keys(Tail(entries), fields, prefix)

\* serde_ignored::deserialize into Compose: Result<(Compose, unused)>
deserialize(path, content) ==
    IF ~follows_schema(content)
    THEN Err(path \o " does not follow the Compose specification")
    ELSE LET root == content.entries
             services == field(root, "services")
         IN  Ok([file |->
                    [version |-> text_field(root, "version"),
                     name |-> text_field(root, "name"),
                     services |-> IF is_some(services)
                                  THEN services_of(unwrap(services).entries)
                                  ELSE <<>>,
                     networks |-> optional_section(root, "networks", NetworkFields),
                     volumes |-> optional_section(root, "volumes", VolumeFields),
                     configs |-> section(root, "configs", ConfigFields),
                     secrets |-> section(root, "secrets", SecretFields)],
                 unused |-> unused_keys(root, ComposeFields, "")])

(***************************************************************************)
(* Project-name resolution (compose.rs 112-155).  The result is the tree,  *)
(* the environment after env::set_var and, on failure, the error.          *)
(***************************************************************************)
current_dir_name == "workdir"

set_var(e, name, value) == [e EXCEPT ![name] = Some(value)]

\* name.as_bool() / as_u64() / as_i64() / as_f64() followed by to_string()
to_string(v) ==
    CASE v.k = "Bool" -> IF v.b THEN "true" ELSE "false"
      [] v.k = "Number" -> v.n
      [] OTHER -> ""

Resolved(content, e, w) == [ok |-> TRUE, content |-> content, env |-> e, v |-> "", warn |-> w]
Unresolved(e, msg, w) == [ok |-> FALSE, content |-> VNull, env |-> e, v |-> msg, warn |-> w]

\* *name = interpolate(name)?; env::set_var("COMPOSE_PROJECT_NAME", name)
publish_interpolated(e, content, r) ==
    IF ~r.ok THEN Unresolved(e, r.chain[Len(r.chain)], r.warn)
    ELSE Resolved(VMapping(insert(content.entries, "name", r.v)),
                  set_var(e, "COMPOSE_PROJECT_NAME", r.v.s), r.warn)

resolve_named(e, content, name) ==
    IF is_string(name) THEN publish_interpolated(e, content, interpolate(e, name))
    ELSE IF name.k \in {"Bool", "Number"}
    THEN Resolved(content, set_var(e, "COMPOSE_PROJECT_NAME", to_string(name)), <<>>)
    ELSE Resolved(content, e, <<>>)

resolve_document_name(e, content) ==
    resolve_named(e, content, unwrap(get(content.entries, "name")))

resolve_explicit_name(e, project_name, content) ==
    Resolved(VMapping(insert(content.entries, "name", VString(project_name))), e, <<>>)

resolve_directory_name(e, content) ==
    Resolved(VMapping(insert(content.entries, "name", VString(current_dir_name))),
             set_var(e, "COMPOSE_PROJECT_NAME", current_dir_name), <<>>)

resolve_document_name_first(e, project_name, content) ==
    IF ~is_mapping(content) THEN Resolved(content, e, <<>>)
    ELSE IF is_some(get(content.entries, "name")) THEN resolve_document_name(e, content)
    ELSE IF is_some(project_name)
    THEN resolve_explicit_name(e, unwrap(project_name), content)
    ELSE resolve_directory_name(e, content)

resolve_project_name(e, project_name, content) ==
    IF ~is_mapping(content) THEN Resolved(content, e, <<>>)
    ELSE IF is_some(project_name)
    THEN resolve_explicit_name(e, unwrap(project_name), content)
    ELSE IF is_some(get(content.entries, "name")) THEN resolve_document_name(e, content)
    ELSE resolve_directory_name(e, content)

\* props.iter().join(".")
RECURSIVE join(_, _)
join(strs, sep) ==
    IF strs = <<>> THEN ""
    ELSE IF Len(strs) = 1 THEN strs[1]
    ELSE strs[1] \o sep \o join(Tail(strs), sep)

\* the whole chain of one source (compose.rs 108-189): resolve the project
\* name, interpolate the tree, deserialize; Result<(path, Compose, unused)>
\* together with the environment and the warnings it leaves
Loaded(v, e, w) == [ok |-> TRUE, v |-> v, env |-> e, warn |-> w]
NotLoaded(msg, e, w) == [ok |-> FALSE, v |-> msg, env |-> e, warn |-> w]

\* serde_yaml::to_string, then serde_ignored::deserialize
load_deserialized(path, d, e, w) ==
    IF ~d.ok THEN NotLoaded(d.v, e, w)
    ELSE Loaded([path |-> path, file |-> d.v.file, unused |-> d.v.unused], e, w)

\* the error of interpolate gets its dotted path: "{props.join(".")}: {err}"
load_interpolated(path, i, e, w) ==
    IF ~i.ok
    THEN NotLoaded(join(SubSeq(i.chain, 1, Len(i.chain) - 1), ".") \o ": "
                       \o i.chain[Len(i.chain)],
                   e, w \o i.warn)
    ELSE load_deserialized(path, deserialize(path, i.v), e, w \o i.warn)

load_resolved(path, n) ==
    IF ~n.ok THEN NotLoaded(n.v, n.env, n.warn)
    ELSE load_interpolated(path, interpolate(n.env, n.content), n.env, n.warn)

load(e, project_name, path, content) ==
    IF content.k = "Malformed" THEN NotLoaded("malformed YAML", e, <<>>)
    ELSE load_resolved(path, resolve_project_name(e, project_name, content))

(***************************************************************************)
(* The constraint checks of one file (compose.rs 194-257), in the order    *)
(* the code runs them: Result<()>, the error of the first violation.       *)
(***************************************************************************)
unwrap_or_default(o) == IF is_some(o) THEN unwrap(o) ELSE FALSE

\* the first of the indices that violate, 0 when none does
first_violation(bad) ==
    IF bad = {} THEN 0 ELSE CHOOSE i \in bad : \A j \in bad : i <= j

\* `if let Some(section) = &file.section { for (name, entry) in section`
entries_of(section_) == IF is_some(section_) THEN unwrap(section_) ELSE <<>>

no_image_no_build(service) == is_none(service.build) /\ is_none(service.image)

host_with_ports(service) ==
    /\ (IF is_some(service.network_mode) THEN unwrap(service.network_mode) ELSE "") = "host"
    /\ is_some(service.ports)

service_violation(service) == no_image_no_build(service) \/ host_with_ports(service)

network_conflict(network) ==
    /\ is_some(network)
    /\ unwrap_or_default(unwrap(network).external)
    /\ \/ is_some(unwrap(network).driver)
       \/ is_some(unwrap(network).driver_opts)
       \/ is_some(unwrap(network).enable_ipv6)
       \/ is_some(unwrap(network).ipam)
       \/ is_some(unwrap(network).internal)
       \/ is_some(unwrap(network).labels)

volume_conflict(volume) ==
    /\ is_some(volume)
    /\ unwrap_or_default(unwrap(volume).external)
    /\ \/ is_some(unwrap(volume).driver)
       \/ is_some(unwrap(volume).driver_opts)
       \/ is_some(unwrap(volume).labels)

config_conflict(config_) == unwrap_or_default(config_.external) /\ is_some(config_.file)

secret_conflict(secret) ==
    /\ unwrap_or_default(secret.external)
    /\ (is_some(secret.file) \/ is_some(secret.environment))

conflict_in(path, kind, entries, bad) ==
    IF first_violation(bad) = 0 THEN Ok("")
    ELSE Err(path \o ": conflicting parameters for " \o kind \o " \""
                \o entries[first_violation(bad)].key \o "\"")

check_networks(path, entries) ==
    conflict_in(path, "network", entries,
                {i \in 1..Len(entries) : network_conflict(entries[i].value)})

check_volumes(path, entries) ==
    conflict_in(path, "volume", entries,
                {i \in 1..Len(entries) : volume_conflict(entries[i].value)})

check_configs(path, entries) ==
    conflict_in(path, "config", entries,
                {i \in 1..Len(entries) : config_conflict(entries[i].value)})

check_secrets(path, entries) ==
    conflict_in(path, "secret", entries,
                {i \in 1..Len(entries) : secret_conflict(entries[i].value)})


service_error(path, services, i) ==
    IF i = 0 THEN Ok("")
    ELSE IF no_image_no_build(services[i].value)
    THEN Err(path \o ": service \"" \o services[i].key
                \o "\" has neither an image nor a build context specified")
    ELSE Err(path \o ": service \"" \o services[i].key
                \o "\" cannot have port mappings due to host network mode")

check_servicesImageOnly(path, services) ==
    service_error(path, services,
                  first_violation({i \in 1..Len(services) :
                                      host_with_ports(services[i].value)}))

check_services(path, services) ==
    service_error(path, services,
                  first_violation({i \in 1..Len(services) :
                                      service_violation(services[i].value)}))

\* the first Err of the checks, in the order the code runs them
RECURSIVE first_err(_)
first_err(checks) ==
    IF Len(checks) = 1 \/ ~Head(checks).ok THEN Head(checks) ELSE first_err(Tail(checks))

validateSkipSecrets(path, file) ==
    first_err(<<check_services(path, file.services),
                check_networks(path, entries_of(file.networks)),
                check_volumes(path, entries_of(file.volumes)),
                check_configs(path, entries_of(file.configs))>>)

validate(path, file) ==
    first_err(<<check_services(path, file.services),
                check_networks(path, entries_of(file.networks)),
                check_volumes(path, entries_of(file.volumes)),
                check_configs(path, entries_of(file.configs)),
                check_secrets(path, entries_of(file.secrets))>>)

(***************************************************************************)
(* The merge of one file into the accumulator (compose.rs 267-301).        *)
(***************************************************************************)
RECURSIVE extend(_, _)
RECURSIVE extendKeepExisting(_, _)

extendKeepExisting(entries, other) ==
    IF other = <<>> THEN entries
    ELSE extendKeepExisting(
            IF index_of(entries, Head(other).key) = 0
            THEN insert(entries, Head(other).key, Head(other).value)
            ELSE entries,
            Tail(other))

\* IndexMap::extend: insert every entry of `other` in order
extend(entries, other) ==
    IF other = <<>> THEN entries
    ELSE extend(insert(entries, Head(other).key, Head(other).value), Tail(other))

merge_sectionReplace(combined, section_) ==
    IF is_some(section_) THEN section_ ELSE combined

\* the match on (&mut combined_file.<section>, file.<section>)
merge_section(combined, section_) ==
    IF is_some(combined) /\ is_some(section_)
    THEN Some(extend(unwrap(combined), unwrap(section_)))
    ELSE IF is_none(combined) /\ is_some(section_) THEN section_
    ELSE combined

merge_scalarKeepSome(combined, value) == IF is_some(value) THEN value ELSE combined

\* combined_file.version = file.version; combined_file.name = file.name
merge_scalar(combined, value) == value

merge(combined, file) ==
    [version |-> merge_scalar(combined.version, file.version),
     name |-> merge_scalar(combined.name, file.name),
     services |-> extend(combined.services, file.services),
     networks |-> merge_section(combined.networks, file.networks),
     volumes |-> merge_section(combined.volumes, file.volumes),
     configs |-> merge_section(combined.configs, file.configs),
     secrets |-> merge_section(combined.secrets, file.secrets)]

(***************************************************************************)
(* parse(config), step by step: the files are read, then each source goes  *)
(* through the lazy loading chain (one source completely before the next), *)
(* then the loop validates and merges the loaded files one by one.         *)
(***************************************************************************)
not_set(name) == "The \"" \o name \o "\" variable is not set, defaulting to a blank string"
not_set_all(names) == [i \in 1..Len(names) |-> not_set(names[i])]

\* compose.rs 97-105: fs::read_to_string of every path, "{path} not found"
ReadFiles ==
    /\ pc = "read"
    /\ LET unread == {i \in 1..Len(contents) : is_none(contents[i])} IN
       IF unread # {}
       THEN /\ result' = Some(Err(config.files[CHOOSE i \in unread : \A j \in unread : i <= j]
                                    \o " not found"))
            /\ pc' = "done"
       ELSE /\ result' = result
            /\ pc' = IF Len(contents) = 0 THEN "merge" ELSE "load"
    /\ UNCHANGED <<env, config, args, contents, files, next_file, combined_file, merged,
                   warnings, tokens, evaluated>>

\* compose.rs 106-190: the chain of one source; collect() returns at the
\* first source that fails.  parse (compose.rs 96) takes the Config alone:
\* the no_interpolate that run hands over (convert.rs 57) reaches no step
\* of the chain, which walks every tree whatever the flag.
Collect(r) ==
    /\ env' = r.env
    /\ warnings' = warnings \o not_set_all(r.warn)
    /\ IF r.ok
       THEN /\ files' = Append(files, r.v)
            /\ next_file' = next_file + 1
            /\ pc' = IF next_file = Len(contents) THEN "merge" ELSE "load"
            /\ result' = result
       ELSE /\ result' = Some(Err(r.v))
            /\ pc' = "done"
            /\ UNCHANGED <<files, next_file>>

LoadFile ==
    /\ pc = "load"
    /\ next_file <= Len(contents)
    /\ Collect(load(env, config.project_name, config.files[next_file],
                    unwrap(contents[next_file])))
    /\ UNCHANGED <<config, args, contents, combined_file, merged, tokens, evaluated>>

\* compose.rs 193-302: one iteration of the loop over the loaded files
Fold(f, checked) ==
    IF ~checked.ok
    THEN /\ result' = Some(checked)
         /\ pc' = "done"
         /\ UNCHANGED <<combined_file, merged, warnings>>
    ELSE /\ warnings' =
               IF f.unused = <<>> THEN warnings
               ELSE Append(warnings, "Unsupported/unknown properties in " \o f.path
                                         \o ": " \o join(f.unused, ", "))
         /\ combined_file' = merge(combined_file, f.file)
         /\ merged' = merged + 1
         /\ UNCHANGED <<result, pc>>

MergeFile ==
    /\ pc = "merge"
    /\ merged < Len(files)
    /\ Fold(files[merged + 1], validate(files[merged + 1].path, files[merged + 1].file))
    /\ UNCHANGED <<env, config, args, contents, files, next_file, tokens, evaluated>>

\* compose.rs 304: Ok(combined_file)
Return ==
    /\ pc = "merge"
    /\ merged = Len(files)
    /\ result' = Some(Ok(combined_file))
    /\ pc' = "done"
    /\ UNCHANGED <<env, config, args, contents, files, next_file, combined_file, merged,
                   warnings, tokens, evaluated>>

Next == ReadFiles \/ LoadFile \/ MergeFile \/ Return

(***************************************************************************)
(* The inputs of parse: the paths, the documents behind them, the project  *)
(* name given on the command line and the environment.                     *)
(***************************************************************************)
Path(i) == "compose" \o ToString(i) \o ".yml"

Doc(entries) == VMapping(entries)
With(doc, key, value) == VMapping(insert(doc.entries, key, value))
Image(image) == VMapping(<<Entry("image", VString(image))>>)
Build(context) == VMapping(<<Entry("build", VString(context))>>)
One(name, value) == VMapping(<<Entry(name, value)>>)
Two(n1, v1, n2, v2) == VMapping(<<Entry(n1, v1), Entry(n2, v2)>>)
Empty == VMapping(<<>>)

Web == Doc(<<Entry("services", One("web", Image("nginx")))>>)

\* convert's run as called with the paths of `docs` and a --no-interpolate
\* flag out of `flags`, all state before the first step of parse
InitRun(docs, project_names, envs, flags) ==
    /\ \E n \in 1..MaxFiles :
          /\ contents \in [1..n -> docs]
          /\ \E project_name \in project_names :
                config = [files |-> [i \in 1..n |-> Path(i)], project_name |-> project_name]
    /\ \E no_interpolate \in flags : args = [no_interpolate |-> no_interpolate]
    /\ env \in envs
    /\ pc = "read"
    /\ files = <<>>
    /\ next_file = 1
    /\ combined_file = Compose_new
    /\ merged = 0
    /\ result = None
    /\ warnings = <<>>
    /\ tokens = <<>>
    /\ evaluated = None

\* the same without the flag
InitParse(docs, project_names, envs) == InitRun(docs, project_names, envs, {FALSE})

Env(var, def, project) ==
    [n \in EnvNames |->
        IF n = "VAR" THEN var ELSE IF n = "DEF" THEN def ELSE project]

\* documents that differ in what they contribute to the merge
Resources(tag) ==
    {Empty,
     One("r1", VMapping(<<Entry("name", VString(tag))>>)),
     Two("r1", VMapping(<<Entry("name", VString(tag \o "1"))>>),
         "r2", VMapping(<<Entry("name", VString(tag \o "2"))>>)),
     One("r2", Empty)}

MergeDocs ==
    {Web,
     Doc(<<Entry("version", VString("3")), Entry("name", VString("app")),
           Entry("services", Two("web", Image("httpd"), "db", Build(".")))>>),
     Doc(<<Entry("services", Two("db", Image("postgres"), "web", Image("caddy"))),
           Entry("version", VNumber("2")), Entry("x-extra", VNull)>>),
     Doc(<<Entry("name", VString("other")), Entry("services", Empty)>>),
     Doc(<<Entry("services", One("bad", Empty))>>)}
    \cup UNION {{With(Web, s, r) : r \in Resources(s)} :
                  s \in {"networks", "volumes", "configs", "secrets"}}

MergeInputs == {Some(d) : d \in MergeDocs}

\* documents that differ in the constraints they keep or break
Host(ports) ==
    VMapping(<<Entry("image", VString("nginx")), Entry("network_mode", VString("host"))>>
             \o (IF ports THEN <<Entry("ports", VSequence(<<VString("80:80")>>))>> ELSE <<>>))

External(values, fields) ==
    {VMapping(<<Entry("external", VBool(b))>> \o f) : b \in values, f \in fields}

Declares(field_names) == {<<Entry(f, VString("x"))>> : f \in field_names}

NetworkDocs ==
    {With(Web, "networks", One("net", r)) :
        r \in {VNull, Empty}
              \cup External({TRUE, FALSE}, {<<>>} \cup Declares({"driver"}))
              \cup External({TRUE}, Declares(NetworkFields \ {"external", "driver"}))
              \cup {VMapping(d) : d \in Declares({"driver"})}}

VolumeDocs ==
    {With(Web, "volumes", One("vol", r)) :
        r \in {VNull}
              \cup External({TRUE, FALSE}, {<<>>} \cup Declares({"labels"}))
              \cup External({TRUE}, Declares({"driver", "driver_opts", "ipam"}))}

ConfigDocs ==
    {With(Web, "configs", One("cfg", r)) :
        r \in External({TRUE, FALSE}, {<<>>} \cup Declares({"file"}))
              \cup External({TRUE}, Declares({"environment"}))
              \cup {VMapping(d) : d \in Declares({"file"})}}

SecretDocs ==
    {With(Web, "secrets", One("sec", r)) :
        r \in External({TRUE, FALSE}, {<<>>} \cup Declares({"environment"}))
              \cup External({TRUE}, Declares({"file"}))
              \cup {VMapping(d) : d \in Declares({"file"})}}

ServiceDocs ==
    {Web,
     Doc(<<Entry("services", One("bad", Empty))>>),
     Doc(<<Entry("services", Two("web", Build("."), "bad", Empty))>>),
     Doc(<<Entry("services", Two("bad", Empty, "worse", VMapping(<<Entry("ports", VNull)>>)))>>),
     Doc(<<Entry("services", One("web", Host(FALSE)))>>),
     Doc(<<Entry("services", Two("web", Host(TRUE), "bad", Empty))>>),
     Doc(<<Entry("services", One("web", Image("${VAR?unset}")))>>),
     Doc(<<Entry("networks", One("net", VMapping(<<Entry("external", VBool(TRUE)),
                                                   Entry("driver", VString("x"))>>))),
           Entry("services", One("bad", Empty))>>)}

ValidateInputs ==
    {Some(d) : d \in ServiceDocs \cup NetworkDocs \cup VolumeDocs \cup ConfigDocs \cup SecretDocs}

InitValidate == InitParse(ValidateInputs, {None}, {Env(None, None, None)})
SpecValidate == InitValidate /\ [][Next]_vars

\* documents that differ in the name they declare; the service's image
\* shows what COMPOSE_PROJECT_NAME is when the tree is interpolated
Named == Doc(<<Entry("services", One("web", Image("${COMPOSE_PROJECT_NAME}")))>>)

NameDocs ==
    {Named, Web, VNull, Malformed,
     Doc(<<Entry("services", One("web", Image("img-$COMPOSE_PROJECT_NAME"))),
           Entry("name", VString("${VAR:-late}"))>>)}
    \cup {With(Named, "name", n) :
            n \in {VString("app"), VString("$VAR"), VString("${VAR?no name}"),
                   VNumber("5"), VBool(TRUE), VNull}}

NameInputs == {None} \cup {Some(d) : d \in NameDocs}

NameEnvs ==
    {Env(var, def, project) :
        var \in {None, Some("woop"), Some("$DEF")},
        def \in {None, Some("d")},
        project \in {None, Some("old")}}

InitName == InitParse(NameInputs, {None, Some("proj"), Some("$VAR")}, NameEnvs)
SpecName == InitName /\ [][Next]_vars

\* documents that differ in where their strings refer to variables: in a
\* service, inside a sequence, under a key that itself looks like a
\* reference, in the name, at the root
Ports(items) ==
    VMapping(<<Entry("image", VString("nginx")), Entry("ports", VSequence(items))>>)

ConvertDocs ==
    {Web,
     VString("${VAR?no root}"),
     Doc(<<Entry("services", One("web", Image("$VAR")))>>),
     Doc(<<Entry("services", One("web", Image("${VAR?no image}")))>>),
     Doc(<<Entry("services", One("web", Image("${VAR")))>>),
     Doc(<<Entry("services", Two("web", Image("${DEF:-d}"), "db", Build("${VAR?no build}"))),
           Entry("version", VString("${VAR?no version}"))>>),
     Doc(<<Entry("services",
                 One("web", Ports(<<VString("80"), VString("${VAR?no port}")>>)))>>),
     Doc(<<Entry("services",
                 One("web", Ports(<<One("target", VString("${VAR?no target}"))>>)))>>),
     Doc(<<Entry("x-${VAR?no key}", VString("$VAR")),
           Entry("x-$VAR", One("$DEF", VString("${VAR?under keys}"))),
           Entry("services", One("web", Image("nginx")))>>),
     With(Web, "name", VString("${VAR?no name}")),
     With(Web, "name", VString("app-$VAR"))}

ConvertInputs == {Some(d) : d \in ConvertDocs}

ConvertEnvs == {Env(var, None, None) : var \in {None, Some("woop")}}

InitConvert ==
    InitRun(ConvertInputs, {None, Some("${VAR?no project}")}, ConvertEnvs, BOOLEAN)
SpecConvert == InitConvert /\ [][Next]_vars

Init == InitParse(MergeInputs, {None}, {Env(None, None, None)})
Spec == Init /\ [][Next]_vars

\* sub occurs in s
Contains(s, sub) ==
    \E i \in 1..(Len(s) + 1) : \E j \in (i - 1)..Len(s) : SubSeq(s, i, j) = sub

(***************************************************************************)
(* Claims about the merge.                                                 *)
(***************************************************************************)
Sections == {"networks", "volumes", "configs", "secrets"}
Returned == pc = "done" /\ is_some(result) /\ unwrap(result).ok

\* the entries of mapping `key` of a file, none when the section is absent
EntriesOf(o) == IF is_some(o) THEN unwrap(o) ELSE <<>>
MapOf(file, key) == IF key = "services" THEN file.services ELSE EntriesOf(file[key])

\* the files folded so far that define k in their mapping `key`
Defining(k, key) == {i \in 1..merged : k \in keys(MapOf(files[i].file, key))}
LastOf(S) == CHOOSE i \in S : \A j \in S : j <= i

\* `entries` maps exactly the keys the folded files define in mapping `key`,
\* each to the definition of the last file that defines it
LastWins(entries, key) ==
    /\ \A k \in keys(entries) : Defining(k, key) # {}
    /\ \A i \in 1..merged : \A k \in keys(MapOf(files[i].file, key)) :
          get(entries, k) = get(MapOf(files[LastOf(Defining(k, key))].file, key), k)

\* C1: at every point of the fold, and in the document parse returns, the
\* service keys are exactly the union of the service keys of the files
\* folded in, and each key maps to the definition of the last of those files
\* that defines it.
C1_ServicesLastWins ==
    /\ LastWins(combined_file.services, "services")
    /\ Returned =>
          /\ unwrap(result).v = combined_file
          /\ merged = Len(config.files)

\* C1 witness: parse returned after two files that both define "web"
\* differently; the combined "web" is the second file's
C1_Witness ==
    /\ Returned
    /\ merged = 2
    /\ is_some(get(files[1].file.services, "web"))
    /\ is_some(get(files[1].file.services, "db"))
    /\ is_none(get(files[2].file.services, "db"))
    /\ get(files[2].file.services, "web") # get(files[1].file.services, "web")
    /\ get(unwrap(result).v.services, "web") = get(files[2].file.services, "web")
    /\ get(unwrap(result).v.services, "db") = get(files[1].file.services, "db")

\* one merge step on section s, case by case
SectionStep(s) ==
    LET acc == combined_file[s]
        doc == files[merged + 1].file[s]
        new == combined_file'[s]
    IN  /\ (is_some(acc) /\ is_some(doc)) =>
              /\ is_some(new)
              /\ keys(unwrap(new)) = keys(unwrap(acc)) \cup keys(unwrap(doc))
              /\ \A k \in keys(unwrap(doc)) : get(unwrap(new), k) = get(unwrap(doc), k)
              /\ \A k \in keys(unwrap(acc)) \ keys(unwrap(doc)) :
                    get(unwrap(new), k) = get(unwrap(acc), k)
        /\ (is_none(acc) /\ is_some(doc)) => new = doc
        /\ (is_some(acc) /\ is_none(doc)) => new = acc
        /\ (is_none(acc) /\ is_none(doc)) => is_none(new)

SectionsFolded ==
    /\ \A s \in Sections :
          is_none(combined_file[s]) <=> \A i \in 1..merged : is_none(files[i].file[s])
    /\ \A s \in Sections : LastWins(EntriesOf(combined_file[s]), s)

C3_VersionNameOfLast ==
    /\ merged >= 1 =>
          /\ combined_file.version = files[merged].file.version
          /\ combined_file.name = files[merged].file.name
    /\ Returned =>
          /\ unwrap(result).v.version = files[Len(config.files)].file.version
          /\ unwrap(result).v.name = files[Len(config.files)].file.name

\* C3 witness: the last file has no version while the first one has
C3_Witness ==
    /\ Returned
    /\ merged = 2
    /\ is_some(files[1].file.version)
    /\ is_none(files[2].file.version)
    /\ is_none(unwrap(result).v.version)
    /\ files[1].file.name # files[2].file.name

(***************************************************************************)
(* Claims about validation.                                                *)
(***************************************************************************)
Failed == pc = "done" /\ is_some(result) /\ ~unwrap(result).ok
AllLoaded == Len(files) = Len(config.files)

\* the entries of mapping `key` of source i as read, none when it has none
RawEntries(i, key) ==
    IF /\ is_some(contents[i])
       /\ unwrap(contents[i]).k = "Mapping"
       /\ is_some(field(unwrap(contents[i]).entries, key))
       /\ unwrap(field(unwrap(contents[i]).entries, key)).k = "Mapping"
    THEN unwrap(field(unwrap(contents[i]).entries, key)).entries
    ELSE <<>>

Declared(value, fields) ==
    /\ value.k = "Mapping"
    /\ \E f \in fields : is_some(field(value.entries, f))

\* service n of source i declares neither an image nor a build context
Imageless(i, n) ==
    /\ RawEntries(i, "services")[n].value.k = "Mapping"
    /\ ~Declared(RawEntries(i, "services")[n].value, {"image", "build"})

NoImageMessage(i, name) ==
    Path(i) \o ": service \"" \o name
        \o "\" has neither an image nor a build context specified"

\* C4 as stated: every service without image and build context, in whichever
\* document, makes parse fail with the error naming that document and service.
C4_Original ==
    pc = "done" =>
        \A i \in 1..Len(contents) : \A n \in 1..Len(RawEntries(i, "services")) :
            Imageless(i, n) =>
                result = Some(Err(NoImageMessage(i, RawEntries(i, "services")[n].key)))

\* file i and its service n are where the first violation of the run is
FirstViolation(i, n) ==
    /\ \A j \in 1..(i - 1) : validate(files[j].path, files[j].file).ok
    /\ \A m \in 1..(n - 1) : ~service_violation(files[i].file.services[m].value)

\* no file that breaks a constraint is ever folded in, and the step that
\* finds the violation leaves the accumulator as it was
NothingInvalidMerged ==
    /\ \A j \in 1..merged : validate(files[j].path, files[j].file).ok
    /\ merged = 0 => combined_file = Compose_new

CheckedBeforeMerged ==
    (pc = "merge" /\ pc' = "done" /\ ~unwrap(result').ok) =>
        /\ combined_file' = combined_file
        /\ merged' = merged
        /\ ~validate(files[merged + 1].path, files[merged + 1].file).ok

\* C4 amended: a service with neither image nor build context, in any
\* document, makes parse fail and return no combined document; the error is
\* that of the first failure of the run, so it names that document and
\* service when every source loads and the service is the first violation
\* in source order; a file's checks all run before any of its fields is
\* written into the accumulator.
C4_NoImageFails ==
    /\ [](pc = "done" =>
            \A i \in 1..Len(contents) : \A n \in 1..Len(RawEntries(i, "services")) :
                Imageless(i, n) =>
                    /\ Failed
                    /\ (AllLoaded /\ FirstViolation(i, n)) =>
                          unwrap(result).v
                              = NoImageMessage(i, RawEntries(i, "services")[n].key))
    /\ []NothingInvalidMerged
    /\ [][CheckedBeforeMerged]_vars

\* C4 witness: the second file's only service has neither; the first file
\* was valid and merged, and parse returned the error, not that merge
C4_Witness ==
    /\ Failed
    /\ Len(contents) = 2 /\ AllLoaded /\ merged = 1
    /\ combined_file # Compose_new
    /\ Len(RawEntries(2, "services")) = 1 /\ Imageless(2, 1)
    /\ unwrap(result).v = NoImageMessage(2, "bad")

Kinds == {"network", "volume", "config", "secret"}
SectionOf(kind) == kind \o "s"
ConflictMessage(i, kind, name) ==
    Path(i) \o ": conflicting parameters for " \o kind \o " \"" \o name \o "\""

MarkedExternal(value) ==
    /\ value.k = "Mapping"
    /\ field(value.entries, "external") = Some(VBool(TRUE))

\* the fields the claim forbids next to external
ClaimedFields(kind) ==
    IF kind \in {"network", "volume"}
    THEN {"driver", "driver_opts", "enable_ipv6", "ipam", "internal", "labels"}
    ELSE {"file", "environment"}

\* the fields that do conflict with external
ConflictFields(kind) ==
    CASE kind = "network" ->
            {"driver", "driver_opts", "enable_ipv6", "ipam", "internal", "labels"}
      [] kind = "volume" -> {"driver", "driver_opts", "labels"}
      [] kind = "config" -> {"file"}
      [] kind = "secret" -> {"file", "environment"}

\* some message of the form of ConflictMessage about resource n of source i
ConflictReported(i, kind, n) ==
    /\ Failed
    /\ unwrap(result).v = ConflictMessage(i, kind, RawEntries(i, SectionOf(kind))[n].key)

\* C5 as stated: every external resource that also declares one of the
\* fields the claim lists makes parse fail with the conflict error naming it,
\* and no resource that is not external is ever named by that error.
C5_Original ==
    pc = "done" =>
        \A i \in 1..Len(contents) : \A kind \in Kinds :
            \A n \in 1..Len(RawEntries(i, SectionOf(kind))) :
                LET value == RawEntries(i, SectionOf(kind))[n].value IN
                /\ (MarkedExternal(value) /\ Declared(value, ClaimedFields(kind))) =>
                      ConflictReported(i, kind, n)
                /\ ~MarkedExternal(value) => ~ConflictReported(i, kind, n)

\* the typed file i has no violation before resource n of section `kind`
FirstConflict(i, kind, n) ==
    /\ \A j \in 1..(i - 1) : validate(files[j].path, files[j].file).ok
    /\ check_services(files[i].path, files[i].file.services).ok
    /\ \A m \in 1..(n - 1) :
          LET value == RawEntries(i, SectionOf(kind))[m].value IN
          ~(MarkedExternal(value) /\ Declared(value, ConflictFields(kind)))

\* C5 amended: an external network declaring driver, driver_opts, enable_ipv6,
\* ipam, internal or labels, an external volume declaring driver, driver_opts
\* or labels, an external config declaring file, an external secret declaring
\* file or environment makes parse fail; the error is the conflict error
\* naming that resource when every source loads and the resource is the
\* first violation in source order (the first failure of the run is the one
\* reported); the conflict error never names a resource whose external is
\* false or unset, nor one that declares none of these fields.
C5_ExternalConflict ==
    pc = "done" =>
        \A i \in 1..Len(contents) : \A kind \in Kinds :
            \A n \in 1..Len(RawEntries(i, SectionOf(kind))) :
                LET value == RawEntries(i, SectionOf(kind))[n].value IN
                /\ (MarkedExternal(value) /\ Declared(value, ConflictFields(kind))) =>
                      /\ Failed
                      /\ (AllLoaded /\ FirstConflict(i, kind, n)) =>
                            ConflictReported(i, kind, n)
                /\ ~(MarkedExternal(value) /\ Declared(value, ConflictFields(kind))) =>
                      ~ConflictReported(i, kind, n)

\* C5 witness: the second file marks a secret external and gives it an
\* environment source; the first file's secret had external: false and a file
C5_Witness ==
    /\ Failed
    /\ Len(contents) = 2 /\ merged = 1
    /\ RawEntries(1, "secrets") # <<>>
    /\ field(RawEntries(1, "secrets")[1].value.entries, "external") = Some(VBool(FALSE))
    /\ Declared(RawEntries(1, "secrets")[1].value, {"environment"})
    /\ RawEntries(2, "secrets") # <<>>
    /\ MarkedExternal(RawEntries(2, "secrets")[1].value)
    /\ Declared(RawEntries(2, "secrets")[1].value, {"environment"})
    /\ ConflictReported(2, "secret", 1)

(***************************************************************************)
(* Claims about project-name resolution.                                   *)
(***************************************************************************)
\* the step that loads source next_file
Loads == pc = "load" /\ Len(files') = Len(files) + 1
Source == unwrap(contents[next_file])
LoadedFile == files'[Len(files')].file

\* the tree of the source after project-name resolution, before the walk
ResolvedTree == resolve_project_name(env, config.project_name, Source).content
ResolvedName == unwrap(get(ResolvedTree.entries, "name"))

\* the string interpolate makes of s in environment e ("" when it fails)
Interpolated(e, s) == scalar_text(interpolate(e, VString(s)).v)

\* C6 as stated: with an explicit project name the combined document's name
\* is that name.
C6_Original ==
    (Returned /\ is_some(config.project_name)) =>
        unwrap(result).v.name = config.project_name

\* what the three tiers make of the tree's name field
TierName ==
    IF is_some(config.project_name) THEN VString(unwrap(config.project_name))
    ELSE IF is_some(get(Source.entries, "name"))
    THEN IF is_string(unwrap(get(Source.entries, "name")))
         THEN VString(Interpolated(env, unwrap(get(Source.entries, "name")).s))
         ELSE unwrap(get(Source.entries, "name"))
    ELSE VString(current_dir_name)

NameStep ==
    (Loads /\ is_mapping(Source)) =>
        /\ ResolvedName = TierName
        /\ LoadedFile.name =
              IF TierName.k = "Null" THEN None
              ELSE IF is_string(TierName) THEN Some(Interpolated(env', TierName.s))
              ELSE Some(scalar_text(TierName))
        /\ (is_some(config.project_name) /\ ~Contains(unwrap(config.project_name), "$")) =>
              LoadedFile.name = config.project_name

\* C6 amended: for a source whose root is a mapping the tree's name field
\* is set to the explicit project name when one is configured, whatever the
\* document declares; otherwise a declared name is kept (a string one
\* interpolated); otherwise it is the working directory's base name.  The
\* tree, its name included, is then interpolated as a whole, so the
\* document's name is the interpolation of that field: with an explicit
\* project name the combined document's name is the interpolation of the
\* override, the override itself when it holds no "$".
C6_ProjectNameTiers ==
    /\ [][NameStep]_vars
    /\ []((Returned /\ is_some(config.project_name)) =>
            /\ unwrap(result).v.name
                  = Some(Interpolated(env, unwrap(config.project_name)))
            /\ ~Contains(unwrap(config.project_name), "$") =>
                  unwrap(result).v.name = config.project_name)

\* C6 witness: parse returned the explicit name for two files, one declaring
\* a name of its own and one declaring none
C6_Witness ==
    /\ Returned
    /\ config.project_name = Some("proj")
    /\ Len(contents) = 2
    /\ get(unwrap(contents[1]).entries, "name") = Some(VString("app"))
    /\ is_none(get(unwrap(contents[2]).entries, "name"))
    /\ files[1].file.name = Some("proj")
    /\ unwrap(result).v.name = Some("proj")

\* the image of service "web" refers to the project name and to nothing else
RefersToProjectName ==
    /\ RawEntries(next_file, "services") # <<>>
    /\ RawEntries(next_file, "services")[1].value
          = Image("${COMPOSE_PROJECT_NAME}")

\* C7: loading a source whose root is a mapping leaves the resolved project
\* name in COMPOSE_PROJECT_NAME and changes no other variable, whichever
\* tier resolved the name, and a reference to COMPOSE_PROJECT_NAME in that
\* document evaluates to the resolved name.
C7_Published ==
    [][(Loads /\ is_mapping(Source) /\ ResolvedName.k # "Null") =>
          /\ env'["COMPOSE_PROJECT_NAME"] = Some(scalar_text(ResolvedName))
          /\ \A n \in EnvNames \ {"COMPOSE_PROJECT_NAME"} : env'[n] = env[n]
          /\ RefersToProjectName =>
                LoadedFile.services[1].value.image = Some(scalar_text(ResolvedName))]_vars

\* the same without the explicit tier
C7_PublishedUnlessExplicit ==
    [][(Loads /\ is_mapping(Source) /\ ResolvedName.k # "Null"
            /\ is_none(config.project_name)) =>
          /\ env'["COMPOSE_PROJECT_NAME"] = Some(scalar_text(ResolvedName))
          /\ \A n \in EnvNames \ {"COMPOSE_PROJECT_NAME"} : env'[n] = env[n]
          /\ RefersToProjectName =>
                LoadedFile.services[1].value.image = Some(scalar_text(ResolvedName))]_vars

(***************************************************************************)
(* The environments and token sequences the evaluator is applied to.       *)
(***************************************************************************)
Lits == {"msg", " "}
RefNames == {"VAR", "DEF"}

RECURSIVE Toks(_)
Seqs(d) == {<<>>} \cup {<<t>> : t \in Toks(d)}
Ops(d) ==
    {Default(st, ts) : st \in States, ts \in Seqs(d)}
    \cup {ErrOp(st, ts) : st \in States, ts \in Seqs(d)}
    \cup {Replace(st, ts) : st \in States, ts \in Seqs(d)}
Toks(d) ==
    {Str(l) : l \in Lits} \cup {Var(n, None) : n \in RefNames}
    \cup (IF d = 0 THEN {} ELSE {Var(n, Some(op)) : n \in RefNames, op \in Ops(d - 1)})

EvalInputs ==
    Seqs(MaxNest)
    \cup {<<Str("pre "), t, Str(" post")>> : t \in Toks(MaxNest)}
    \cup {<<t, u>> : t \in Toks(1), u \in Toks(1)}

EvalEnvs ==
    {[n \in EnvNames |-> IF n = "VAR" THEN a ELSE IF n = "DEF" THEN b ELSE None] :
        a \in {None, Some(""), Some("woop")}, b \in {None, Some(""), Some("d")}}

NoConfig == [files |-> <<>>, project_name |-> None]

InitEval ==
    /\ env \in EvalEnvs
    /\ tokens \in EvalInputs
    /\ evaluated = None
    /\ pc = "evaluate"
    /\ config = NoConfig
    /\ args = [no_interpolate |-> FALSE]
    /\ contents = <<>>
    /\ files = <<>>
    /\ next_file = 1
    /\ combined_file = Compose_new
    /\ merged = 0
    /\ result = None
    /\ warnings = <<>>

\* one call of evaluate(tokens) against the environment
Evaluate ==
    /\ pc = "evaluate"
    /\ LET r == evaluate(env, tokens) IN
       /\ evaluated' = Some([ok |-> r.ok, v |-> r.v])
       /\ warnings' = r.warn
    /\ pc' = "evaluated"
    /\ UNCHANGED <<env, config, args, contents, files, next_file, combined_file, merged,
                   result, tokens>>

NextEval == Evaluate
SpecEval == InitEval /\ [][NextEval]_vars

(***************************************************************************)
(* Claims about evaluate.                                                  *)
(***************************************************************************)
\* the Presence test, stated on the environment
Present(e, state, name) ==
    /\ is_some(e[name])
    /\ state = "SetAndNonEmpty" => unwrap(e[name]) # ""

\* the single token of the harness input is a reference with operator `kind`
OneRef(kind) ==
    /\ Len(tokens) = 1
    /\ tokens[1].t = "Var"
    /\ is_some(tokens[1].var)
    /\ unwrap(tokens[1].var).kind = kind

RefName == tokens[1].name
RefOp == unwrap(tokens[1].var)
Evaluated == unwrap(evaluated)

\* C8: a RequireOrFail reference yields the variable's value when the variable
\* passes the Presence test, without evaluating the message (no warning, no
\* failure from it); otherwise evaluation fails, and when the message
\* evaluates to m the error is the bare sentence for m = "" and the sentence
\* followed by ": m" for any other m (a blank m included).
C8_RequireOrFail ==
    (pc = "evaluated" /\ OneRef("Err")) =>
        IF Present(env, RefOp.state, RefName)
        THEN Evaluated = Ok(unwrap(env[RefName])) /\ warnings = <<>>
        ELSE LET m == evaluate(env, RefOp.tokens) IN
             /\ ~Evaluated.ok
             /\ warnings = m.warn
             /\ (m.ok /\ m.v = "") =>
                    Evaluated.v = "Required variable \"" \o RefName
                                    \o "\" is missing a value"
             /\ (m.ok /\ m.v # "") =>
                    Evaluated.v = "Required variable \"" \o RefName
                                    \o "\" is missing a value: " \o m.v
             /\ ~m.ok => Evaluated.v = m.v

\* C8 witness: a variable that is set but empty, required non-empty, with a
\* blank (non-empty) message
C8_Witness ==
    /\ pc = "evaluated" /\ OneRef("Err")
    /\ RefOp.state = "SetAndNonEmpty" /\ env[RefName] = Some("")
    /\ RefOp.tokens = <<Str(" ")>>
    /\ Evaluated = Err("Required variable \"VAR\" is missing a value:  ")

\* C9: a Default reference yields exactly the variable's value when the
\* variable passes the Presence test, without evaluating the fallback;
\* otherwise it yields whatever the evaluation of the fallback tokens yields;
\* and a sequence of two tokens yields the concatenation of their results.
C9_Default ==
    /\ (pc = "evaluated" /\ OneRef("Default")) =>
        IF Present(env, RefOp.state, RefName)
        THEN Evaluated = Ok(unwrap(env[RefName])) /\ warnings = <<>>
        ELSE LET f == evaluate(env, RefOp.tokens) IN
             Evaluated = [ok |-> f.ok, v |-> f.v] /\ warnings = f.warn
    /\ (pc = "evaluated" /\ Len(tokens) = 2) =>
        LET a == evaluate(env, <<tokens[1]>>)
            b == evaluate(env, <<tokens[2]>>) IN
        /\ (a.ok /\ b.ok) => Evaluated = Ok(a.v \o b.v)
        /\ ~a.ok => Evaluated = Err(a.v)
        /\ (a.ok /\ ~b.ok) => Evaluated = Err(b.v)

\* C9 witness: an absent (blank under SetAndNonEmpty) variable whose fallback
\* is a nested reference with its own operator
C9_Witness ==
    /\ pc = "evaluated" /\ OneRef("Default")
    /\ RefOp.state = "SetAndNonEmpty" /\ env[RefName] = Some("")
    /\ RefOp.tokens = <<Var("DEF", Some(Default("Set", <<Str("msg")>>)))>>
    /\ env["DEF"] = None
    /\ Evaluated = Ok("msg")

\* the token sequence refers to variable `name` somewhere, at any depth
RECURSIVE Mentions(_, _)
Mentions(toks, name) ==
    \E i \in 1..Len(toks) :
        /\ toks[i].t = "Var"
        /\ \/ toks[i].name = name
           \/ /\ is_some(toks[i].var)
              /\ Mentions(unwrap(toks[i].var).tokens, name)

\* C10 as stated: a ReplaceIfPresent reference yields the evaluation of the
\* replacement tokens when the variable passes the Presence test and the
\* empty string otherwise, and the variable's own (non-empty) value never
\* occurs in the result.
C10_Original ==
    (pc = "evaluated" /\ OneRef("Replace")) =>
        /\ IF Present(env, RefOp.state, RefName)
           THEN LET r == evaluate(env, RefOp.tokens) IN
                Evaluated = [ok |-> r.ok, v |-> r.v]
           ELSE Evaluated = Ok("")
        /\ (Evaluated.ok /\ is_some(env[RefName]) /\ unwrap(env[RefName]) # "") =>
               ~Contains(Evaluated.v, unwrap(env[RefName]))

\* C10 amended: a ReplaceIfPresent reference yields the evaluation of the
\* replacement tokens when the variable passes the Presence test and the
\* empty string otherwise; the operator itself never uses the variable's
\* value: unless the replacement tokens mention the variable, the outcome
\* is the same for any other non-empty value of the variable.
C10_ReplaceIfPresent ==
    (pc = "evaluated" /\ OneRef("Replace")) =>
        /\ IF Present(env, RefOp.state, RefName)
           THEN LET r == evaluate(env, RefOp.tokens) IN
                Evaluated = [ok |-> r.ok, v |-> r.v] /\ warnings = r.warn
           ELSE Evaluated = Ok("") /\ warnings = <<>>
        /\ (Present(env, RefOp.state, RefName) /\ ~Mentions(RefOp.tokens, RefName)) =>
               LET other == evaluate([env EXCEPT ![RefName] = Some("other")], tokens) IN
               Evaluated = [ok |-> other.ok, v |-> other.v]

\* C10 witness: a present variable with a value of its own, replaced by the
\* evaluation of a nested reference
C10_Witness ==
    /\ pc = "evaluated" /\ OneRef("Replace")
    /\ RefOp.state = "SetAndNonEmpty" /\ env[RefName] = Some("woop")
    /\ RefOp.tokens = <<Var("DEF", Some(Default("Set", <<Str("msg")>>)))>>
    /\ env["DEF"] = None
    /\ Evaluated = Ok("msg")

(***************************************************************************)
(* Claims about the convert command's --no-interpolate flag.               *)
(***************************************************************************)
\* the document declares a string name: the one string that project-name
\* resolution itself interpolates when no explicit name is configured
NameInterpolated ==
    /\ is_mapping(Source)
    /\ is_none(config.project_name)
    /\ is_some(get(Source.entries, "name"))
    /\ is_string(unwrap(get(Source.entries, "name")))

\* the step collects what deserialization makes of `tree`
Collects(d) ==
    IF d.ok THEN Loads /\ LoadedFile = d.v.file
    ELSE ~Loads /\ result' = Some(Err(d.v))

\* C11: with no_interpolate set the walk is skipped, so a source is loaded
\* as the deserialization of its tree as project-name resolution left it,
\* every string unchanged, and fails only where that deserialization fails
\* (never on a variable reference); without the flag a loaded source is the
\* deserialization of its interpolated tree.
C11_NoInterpolate ==
    [][/\ (pc = "load" /\ args.no_interpolate /\ Source.k # "Malformed"
              /\ ~NameInterpolated) =>
            Collects(deserialize(config.files[next_file], ResolvedTree))
       /\ (~args.no_interpolate /\ Loads) =>
            Collects(deserialize(config.files[next_file],
                                 interpolate(env', ResolvedTree).v))]_vars

\* what the code does: a loaded source is the deserialization of its
\* interpolated tree whatever the flag
C11_InterpolatedWhateverFlag ==
    [][Loads => Collects(deserialize(config.files[next_file],
                                     interpolate(env', ResolvedTree).v))]_vars

\* with the flag set a reference was replaced by the variable's value
C11_FlagSetYetInterpolated ==
    /\ args.no_interpolate
    /\ Len(files) = 1
    /\ unwrap(contents[1]) = Doc(<<Entry("services", One("web", Image("$VAR")))>>)
    /\ files[1].file.services[1].value.image = Some("woop")

\* with the flag set a required variable made parse fail
C11_FlagSetYetRequired ==
    /\ args.no_interpolate
    /\ unwrap(contents[1]) = Doc(<<Entry("services", One("web", Image("${VAR?no image}")))>>)
    /\ result = Some(Err("services.web.image: " \o missing("VAR") \o ": no image"))

(***************************************************************************)
(* Claims about the path of an interpolation error.                        *)
(***************************************************************************)
\* the string scalars of a tree in document order, each with the mapping
\* keys that lead to it from the root (a sequence adds nothing to the path)
RECURSIVE StringsOf(_, _)
RECURSIVE StringsOfAll(_, _)
RECURSIVE StringsOfEntries(_, _)
StringsOfAll(items, path) ==
    IF items = <<>> THEN <<>>
    ELSE StringsOf(Head(items), path) \o StringsOfAll(Tail(items), path)

StringsOfEntries(entries, path) ==
    IF entries = <<>> THEN <<>>
    ELSE StringsOf(Head(entries).value, Append(path, Head(entries).key))
             \o StringsOfEntries(Tail(entries), path)

StringsOf(value, path) ==
    CASE value.k = "String" -> <<[path |-> path, s |-> value.s]>>
      [] value.k = "Sequence" -> StringsOfAll(value.items, path)
      [] value.k = "Mapping" -> StringsOfEntries(value.entries, path)
      [] OTHER -> <<>>

\* the scalars that fail to interpolate in environment e
FailsAt(leaves, e) == {i \in 1..Len(leaves) : ~interpolateString(e, leaves[i].s).ok}

\* "<dotted path>: <message>" of a failing scalar
Qualified(leaf, e) ==
    join(leaf.path, ".") \o ": " \o interpolateString(e, leaf.s).chain[1]

\* the step fails with the qualified error of the first failing scalar, and
\* with no interpolation error when no scalar fails
Surfaced(leaves, bad, e) ==
    IF bad = {}
    THEN Loads \/ result' = Some(Err(config.files[next_file]
                                        \o " does not follow the Compose specification"))
    ELSE result' = Some(Err(Qualified(leaves[CHOOSE i \in bad : \A j \in bad : i <= j], e)))

WalkSurfaced(leaves, e) == Surfaced(leaves, FailsAt(leaves, e), e)

\* the declared name, interpolated on its own during project-name resolution
DeclaredName == [path |-> <<"name">>, s |-> unwrap(get(Source.entries, "name")).s]
NameFails == NameInterpolated /\ ~interpolateString(env, DeclaredName.s).ok

\* C12: an error raised while interpolating a string scalar of a document
\* is returned by parse as "<dotted path>: <message>", the path being the
\* mapping keys from the root to the scalar as written (never interpolated),
\* without sequence indices; this includes the name interpolated during
\* project-name resolution, whose error reads "name: <message>".
C12_PathQualified ==
    [][(pc = "load" /\ Source.k # "Malformed") =>
          IF NameFails THEN result' = Some(Err(Qualified(DeclaredName, env)))
          ELSE WalkSurfaced(StringsOf(ResolvedTree, <<>>), env')]_vars

\* what the code does: the same, except that the error of the name
\* interpolated during project-name resolution is returned bare
C12_PathQualifiedButName ==
    [][(pc = "load" /\ Source.k # "Malformed") =>
          IF NameFails
          THEN result' = Some(Err(interpolateString(env, DeclaredName.s).chain[1]))
          ELSE WalkSurfaced(StringsOf(ResolvedTree, <<>>), env')]_vars

\* errors under a sequence and under keys that look like references
C12_SequenceElement ==
    /\ unwrap(contents[1]) =
          Doc(<<Entry("services",
                      One("web", Ports(<<One("target", VString("${VAR?no target}"))>>)))>>)
    /\ result = Some(Err("services.web.ports.target: " \o missing("VAR") \o ": no target"))

C12_RawKeys ==
    /\ result = Some(Err("x-$VAR.$DEF: " \o missing("VAR") \o ": under keys"))

\* the bare error of the declared name
C12_BareName ==
    /\ is_none(config.project_name)
    /\ unwrap(contents[1]) = With(Web, "name", VString("${VAR?no name}"))
    /\ result = Some(Err(missing("VAR") \o ": no name"))

====
